---- MODULE Spec2Model ----
(***************************************************************************)
(* State-machine model of the four tool servers of the repository:        *)
(*   src/bash_mcp.py        the shell executor with its bounded history    *)
(*   src/gssh_mcp.py        the SSH / GCloud controller                    *)
(*   src/puppeteer_mcp.py   the browser controller                         *)
(*   src/tradingAPI_mcp.py  the brokerage controller                       *)
(* Each server is its own operating-system process with its own module     *)
(* globals; a behaviour of the model follows one of them, chosen by the    *)
(* variable server in the initial state.                                   *)
(*                                                                         *)
(* A coroutine runs without interruption between two awaits, so one action *)
(* of the model is one such segment: from a tool's entry (or from the      *)
(* completion of the awaited event) to the next await or to the return.    *)
(* Python strings are TLA+ strings, dicts are records (a key is present    *)
(* iff it is in the record's DOMAIN), lists are sequences, Optional[x] is  *)
(* None (the empty tuple) or Some(x) (a one-element tuple).                *)
(***************************************************************************)
EXTENDS Integers, Sequences, FiniteSets, TLC

VARIABLES
    server,           \* which server process the behaviour follows
    command_history,  \* bash_mcp.py: the module-level list command_history
    appended,         \* history variable: every record ever appended, in order
    pc,               \* per task: where its execute_command coroutine is suspended
    frame,            \* per task: the locals of its execute_command call
    tool,             \* per task: the tool coroutine that awaits execute_command
    procs,            \* the subprocesses spawned so far, by pid
    tmpfiles,         \* the temporary script files that exist
    ncalls,           \* number of execute_command dispatches so far
    last,             \* history variable: the most recent execute_command return
    bm,               \* puppeteer_mcp.py: browser_manager's playwright, browser, context
    pages,            \* puppeteer_mcp.py: browser_manager.pages
    npages,           \* history variable: pages created so far
    connections,      \* gssh_mcp.py: ssh_manager.connections
    nclients,         \* history variable: SSH clients constructed so far
    gcloud_manager,   \* gssh_mcp.py: the module-level gcloud_manager
    ib_connected,     \* tradingAPI_mcp.py: ib_manager.connected
    broker_calls,     \* history variable: calls made to the broker API
    ib_session,       \* history variable: some ib.connect call has succeeded
    resp              \* the most recent tool response handed to the transport

bashVars == <<command_history, appended, pc, frame, tool, procs, tmpfiles, ncalls, last>>
browserVars == <<bm, pages, npages>>
sshVars == <<connections, nclients, gcloud_manager>>
tradingVars == <<ib_connected, broker_calls, ib_session>>
vars == <<server, bashVars, browserVars, sshVars, tradingVars, resp>>

----------------------------------------------------------------------------
(* Bounds of the model *)

\* execute_command dispatches followed in one behaviour
MaxCalls == 2
\* start_browser calls followed in one behaviour
MaxStarts == 2
\* SSH clients constructed in one behaviour
MaxClients == 3
\* broker API calls followed in one behaviour
MaxBrokerCalls == 2

(* Program constants *)

MAX_HISTORY == 50

----------------------------------------------------------------------------
(* Python values *)

None == <<>>
Some(x) == <<x>>

Min(a, b) == IF a <= b THEN a ELSE b
Max(a, b) == IF a >= b THEN a ELSE b

\* s[start:] of a Python list, start an int (a negative start counts from the end)
PySliceFrom(s, start) ==
    LET n == Len(s)
        lo == IF start < 0 THEN Max(n + start, 0) ELSE Min(start, n)
    IN  SubSeq(s, lo + 1, n)

\* s[-n:] : Python negates n first, and -0 is 0
PyLast(s, n) == PySliceFrom(s, 0 - n)

\* list.pop(0) leaves the tail
PopFirst(s) == Tail(s)

----------------------------------------------------------------------------
(* bash_mcp.py: the environment the shell executor runs in *)

Servers == {"bash", "browser", "ssh", "trading"}

Tasks == {1, 2}
\* the tool-calling boundary of the specification's section 5: one request at a time
SeqTasks == {1}

Cwd == "/srv"
BadDir == "/nonexistent"

ExecCommands == {"true", "false", "sleep inf"}
ExplainCommands == {"", "echo 'x", "true", "sleep inf"}
Scripts == {"exit 3", "sleep inf"}
WorkingDirs == {None, Some(BadDir)}
Timeouts == {None, Some(30)}
ScriptTimeouts == {None, Some(60)}

ScriptHeader == "#!/usr/bin/env bash\nset -euo pipefail\n"

\* tempfile.NamedTemporaryFile: a name no existing file has
TmpPath(files) ==
    LET free == {n \in 1..(Cardinality(files) + 1) :
                    \A f \in files : f.path # "/tmp/tmp" \o ToString(n) \o ".sh"}
        n == CHOOSE k \in free : \A j \in free : k <= j
    IN  "/tmp/tmp" \o ToString(n) \o ".sh"

\* What the shell does with a command line: whether the process exits on its
\* own, and with which status and output.
Exits(code, out, err) == [terminates |-> TRUE, exit_code |-> code, stdout |-> out, stderr |-> err]
Hangs == [terminates |-> FALSE, exit_code |-> 0, stdout |-> "", stderr |-> ""]

ScriptProgram(body) ==
    IF body = ScriptHeader \o "exit 3" THEN Exits(3, "", "") ELSE Hangs

Program(command, files) ==
    CASE command = "true" -> Exits(0, "", "")
      [] command = "false" -> Exits(1, "", "")
      [] command = "" -> Exits(0, "", "")
      [] command = "sleep inf" -> Hangs
      [] command = "type -t true" -> Exits(0, "builtin\n", "")
      [] command = "type -t sleep" -> Exits(0, "file\n", "")
      [] command = "help true 2>/dev/null | head -20" -> Exits(0, "true: true\n", "")
      [] command = "man sleep 2>/dev/null | head -30" -> Exits(0, "SLEEP(1)\n", "")
      [] \E f \in files : command = "bash " \o f.path ->
            ScriptProgram((CHOOSE f \in files : command = "bash " \o f.path).body)
      [] OTHER -> Exits(127, "", "sh: not found\n")

\* shlex.split on the command lines the model feeds it
ShlexRaises(command) == command = "echo 'x"
ShlexSplit(command) ==
    CASE command = "" -> <<>>
      [] command = "true" -> <<"true">>
      [] command = "sleep inf" -> <<"sleep", "inf">>
      [] OTHER -> <<command>>

\* str.strip on the outputs the model produces
Strip(s) ==
    CASE s = "builtin\n" -> "builtin"
      [] s = "file\n" -> "file"
      [] OTHER -> s

\* " ".join(parts[1:])
JoinArgs(parts) == IF Len(parts) = 2 THEN parts[2] ELSE ""

\* f"{timeout}" of an Optional[int]
PyStr(timeout) == IF timeout = None THEN "None" ELSE ToString(timeout[1])

----------------------------------------------------------------------------
(* bash_mcp.py: BashGuru.execute_command *)

\* the capacity check with > for >=
EvictIfFull_OffByOne(h) == IF Len(h) > MAX_HISTORY THEN PopFirst(h) ELSE h

\* lines 34-35: the capacity check made on entry
EvictIfFull(h) == IF Len(h) >= MAX_HISTORY THEN PopFirst(h) ELSE h

\* the timeout record carrying the killed process's status as an exit code
TimeoutRecord_ExitCode(command, timeout) ==
    [command   |-> command,
     error     |-> "Command timed out after " \o PyStr(timeout) \o " seconds",
     exit_code |-> -9,
     success   |-> FALSE]

\* lines 53-57
TimeoutRecord(command, timeout) ==
    [command |-> command,
     error   |-> "Command timed out after " \o PyStr(timeout) \o " seconds",
     success |-> FALSE]

\* lines 59-66
ResultRecord(command, working_dir, prog) ==
    [command     |-> command,
     stdout      |-> prog.stdout,
     stderr      |-> prog.stderr,
     exit_code   |-> prog.exit_code,
     success     |-> prog.exit_code = 0,
     working_dir |-> IF working_dir = None THEN Cwd ELSE working_dir[1]]

\* lines 71-76
ExceptionRecord(command, e) ==
    [command |-> command, error |-> e, success |-> FALSE]

\* create_subprocess_shell raises when cwd is not a directory
SpawnError(working_dir) ==
    "[Errno 2] No such file or directory: '" \o working_dir[1] \o "'"

NoFrame == [command |-> "", working_dir |-> None, timeout |-> None, pid |-> 0,
            call |-> 0, len0 |-> 0, app0 |-> 0]
NoTool == [name |-> "none", stage |-> 0, arg |-> "", explanations |-> <<>>]
NoLast == [task |-> 0, call |-> 0, outcome |-> "none", ret |-> [command |-> ""],
           timeout |-> None, pid |-> 0,
           len0 |-> 0, app0 |-> 0, len1 |-> 0, app1 |-> 0, status |-> "none"]
NoResp == [tool |-> "none", outcome |-> "none", body |-> [kind |-> "none"], failure |-> "none"]

\* what a tool hands to the transport
Json(v) == [kind |-> "json", value |-> v]
Str(s) == [kind |-> "str", str |-> s]
Lines(l) == [kind |-> "lines", lines |-> l]
\* A response; failure is a history field: the error kind (section 7 of the
\* specification) of the branch the tool took, "none" when it took none.
Returned(name, body) ==
    [tool |-> name, outcome |-> "returned", body |-> body, failure |-> "none"]
Failed(name, kind, body) ==
    [tool |-> name, outcome |-> "returned", body |-> body, failure |-> kind]
Raised(name, kind, exc) ==
    [tool |-> name, outcome |-> "raised", body |-> [kind |-> "exception", exc |-> exc],
     failure |-> kind]

\* the error kind of an execute_command outcome
FailureOf(outcome, r) ==
    CASE outcome = "timeout" -> "Timeout"
      [] outcome = "exception" -> "ProviderError"
      [] r.exit_code # 0 -> "ProviderError"
      [] OTHER -> "none"

AllIdle == \A u \in Tasks : tool[u].name = "none"

\* Entry of execute_command with history h, up to the await of
\* create_subprocess_shell (lines 32-38); a is the append log at that moment.
Enter(t, h, a, command, working_dir, timeout) ==
    /\ command_history' = EvictIfFull(h)
    /\ pc' = [pc EXCEPT ![t] = "spawn"]
    /\ frame' = [frame EXCEPT ![t] =
            [command |-> command, working_dir |-> working_dir, timeout |-> timeout,
             pid |-> 0, call |-> ncalls + 1, len0 |-> Len(h), app0 |-> Len(a)]]
    /\ ncalls' = ncalls + 1

\* The tool coroutine is done: nothing of task t stays suspended.
Finish(t, h, response) ==
    /\ command_history' = h
    /\ pc' = [pc EXCEPT ![t] = "idle"]
    /\ frame' = [frame EXCEPT ![t] = NoFrame]
    /\ tool' = [tool EXCEPT ![t] = NoTool]
    /\ ncalls' = ncalls
    /\ resp' = response

\* explain_command, lines 246-252
Breakdown(parts) ==
    <<"\nCommand breakdown:", "* Base command: " \o parts[1]>>
    \o (IF Len(parts) > 1 THEN <<"* Arguments: " \o JoinArgs(parts)>> ELSE <<>>)

\* explain_command resumed with the record r of its awaited execute_command
\* (lines 230-252)
ExplainResume(t, h, a, r) ==
    LET parts == ShlexSplit(tool[t].arg)
        base_cmd == parts[1]
        done(expl) == /\ Finish(t, h, Returned("explain_command", Lines(expl \o Breakdown(parts))))
                      /\ UNCHANGED tmpfiles
    IN  IF tool[t].stage = 1
        THEN IF r.success
             THEN LET cmd_type == Strip(r.stdout)
                      expl == <<"Command type: " \o cmd_type>>
                      nxt == IF cmd_type = "builtin"
                             THEN "help " \o base_cmd \o " 2>/dev/null | head -20"
                             ELSE "man " \o base_cmd \o " 2>/dev/null | head -30"
                  IN  /\ Enter(t, h, a, nxt, None, Some(30))
                      /\ tool' = [tool EXCEPT ![t].stage = 2, ![t].explanations = expl]
                      /\ UNCHANGED <<resp, tmpfiles>>
             ELSE done(<<>>)
        ELSE IF r.success
             THEN done(tool[t].explanations \o
                       <<(IF tool[t].explanations = <<"Command type: builtin">>
                          THEN "Builtin help:\n" ELSE "Man page excerpt:\n") \o r.stdout>>)
             ELSE done(tool[t].explanations)

\* execute_command of task t returns record r; h and a are the history and
\* the append log it leaves. The awaiting tool coroutine runs on to its own
\* next await or return (lines 158-159, 188-191, 230-252).
Return(t, h, a, r, outcome, status) ==
    /\ appended' = a
    /\ last' = [task |-> t, call |-> frame[t].call, outcome |-> outcome, ret |-> r,
                timeout |-> frame[t].timeout, pid |-> frame[t].pid,
                len0 |-> frame[t].len0, app0 |-> frame[t].app0,
                len1 |-> Len(h), app1 |-> Len(a), status |-> status]
    /\ CASE tool[t].name = "shell_execute" ->
              /\ Finish(t, h, Failed("shell_execute", FailureOf(outcome, r), Json(r)))
              /\ UNCHANGED tmpfiles
         [] tool[t].name = "shell_script" ->
              /\ Finish(t, h, Failed("shell_script", FailureOf(outcome, r), Json(r)))
              /\ tmpfiles' = {f \in tmpfiles : f.path # tool[t].arg}
         [] tool[t].name = "explain_command" -> ExplainResume(t, h, a, r)

----------------------------------------------------------------------------
(* bash_mcp.py: the tools *)

otherVars == <<server, browserVars, sshVars, tradingVars>>

\* shell_execute, lines 142-159, to the first await
ShellExecute(t, command, working_dir, timeout) ==
    /\ server = "bash" /\ tool[t].name = "none" /\ ncalls < MaxCalls
    /\ tool' = [tool EXCEPT ![t] = [NoTool EXCEPT !.name = "shell_execute", !.arg = command]]
    /\ Enter(t, command_history, appended, command, working_dir, timeout)
    /\ UNCHANGED <<appended, procs, tmpfiles, last, resp, otherVars>>

\* shell_script, lines 163-188, to the first await
ShellScript(t, script, working_dir, timeout) ==
    /\ server = "bash" /\ tool[t].name = "none" /\ ncalls < MaxCalls
    /\ LET script_path == TmpPath(tmpfiles)
       IN  /\ tmpfiles' = tmpfiles \cup {[path |-> script_path, body |-> ScriptHeader \o script]}
           /\ tool' = [tool EXCEPT ![t] = [NoTool EXCEPT !.name = "shell_script", !.arg = script_path]]
           /\ Enter(t, command_history, appended, "bash " \o script_path, working_dir, timeout)
    /\ UNCHANGED <<appended, procs, last, resp, otherVars>>

\* explain_command, lines 209-230, to the first await or to its early end
ExplainCommand(t, command) ==
    /\ server = "bash" /\ tool[t].name = "none" /\ ncalls + 2 <= MaxCalls
    /\ IF ShlexRaises(command)
       THEN /\ resp' = Raised("explain_command", "InputError", "ValueError: No closing quotation")
            /\ UNCHANGED <<bashVars, otherVars>>
       ELSE IF ShlexSplit(command) = <<>>
       THEN /\ resp' = Failed("explain_command", "InputError", Str("Invalid command"))
            /\ UNCHANGED <<bashVars, otherVars>>
       ELSE /\ tool' = [tool EXCEPT ![t] = [NoTool EXCEPT !.name = "explain_command",
                                                          !.stage = 1, !.arg = command]]
            /\ Enter(t, command_history, appended,
                     "type -t " \o ShlexSplit(command)[1], None, Some(30))
            /\ UNCHANGED <<appended, procs, tmpfiles, last, resp, otherVars>>

\* shell_history, line 266
Recent(h, last_n) == IF Len(h) > last_n THEN PyLast(h, last_n) ELSE h

\* lines 268-273; the status glyphs are written "ok" and "x", and stderr[:100]
\* is the whole stderr: no output of the model is longer
HistoryLines(recent) ==
    LET line(i) ==
            <<ToString(i) \o ". [" \o (IF recent[i].success THEN "ok" ELSE "x") \o "] "
                \o recent[i].command>>
            \o (IF ~recent[i].success /\ recent[i].stderr # ""
                THEN <<"   Error: " \o recent[i].stderr \o "...">> ELSE <<>>)
        RECURSIVE upto(_)
        upto(i) == IF i = 0 THEN <<>> ELSE upto(i - 1) \o line(i)
    IN  upto(Len(recent))

\* shell_history, lines 256-275; last_n and recent are history fields of the
\* response
ShellHistory(last_n) ==
    /\ server = "bash"
    /\ LET recent == Recent(command_history, last_n)
       IN  resp' = [Returned("shell_history",
                             IF recent = <<>> THEN Str("No command history yet")
                             ELSE Lines(HistoryLines(recent)))
                    EXCEPT !.tool = "shell_history"] @@ [last_n |-> last_n, recent |-> recent]
    /\ UNCHANGED <<bashVars, otherVars>>

----------------------------------------------------------------------------
(* bash_mcp.py: the awaited events of execute_command *)

NewProc(prog) == [status |-> "running", prog |-> prog, timed_out |-> FALSE]

\* create_subprocess_shell completes (lines 38-44): the process runs, or the
\* call raises and the handler of lines 71-76 returns
SpawnDone(t) ==
    /\ server = "bash" /\ pc[t] = "spawn"
    /\ IF frame[t].working_dir = Some(BadDir)
       THEN /\ Return(t, command_history, appended,
                      ExceptionRecord(frame[t].command, SpawnError(frame[t].working_dir)),
                      "exception", "none")
            /\ UNCHANGED procs
       ELSE /\ procs' = Append(procs, NewProc(Program(frame[t].command, tmpfiles)))
            /\ pc' = [pc EXCEPT ![t] = "communicate"]
            /\ frame' = [frame EXCEPT ![t].pid = Len(procs) + 1]
            /\ UNCHANGED <<command_history, appended, tool, tmpfiles, ncalls, last, resp>>
    /\ UNCHANGED otherVars

\* process.communicate() completes before the deadline (lines 47-50, 59-69)
Completes(t) ==
    /\ server = "bash" /\ pc[t] = "communicate"
    /\ procs[frame[t].pid].prog.terminates
    /\ procs' = [procs EXCEPT ![frame[t].pid].status = "exited"]
    /\ LET result == ResultRecord(frame[t].command, frame[t].working_dir, procs[frame[t].pid].prog)
       IN  Return(t, Append(command_history, result), Append(appended, result),
                  result, "completed", "exited")
    /\ UNCHANGED otherVars

\* process.kill(): SIGKILL is sent, the call returns without waiting
Kill(p) == [p EXCEPT !.status = "killed"]

\* the deadline of wait_for elapses first (lines 51-57)
DeadlineElapses(t) ==
    /\ server = "bash" /\ pc[t] = "communicate"
    /\ frame[t].timeout # None
    /\ procs' = [procs EXCEPT ![frame[t].pid] = [Kill(@) EXCEPT !.timed_out = TRUE]]
    /\ Return(t, command_history, appended,
              TimeoutRecord(frame[t].command, frame[t].timeout), "timeout",
              Kill(procs[frame[t].pid]).status)
    /\ UNCHANGED otherVars

\* the operating system ends a process that was sent SIGKILL
ProcessDies(p) ==
    /\ server = "bash" /\ p \in DOMAIN procs
    /\ procs[p].status = "killed"
    /\ procs' = [procs EXCEPT ![p].status = "exited"]
    /\ UNCHANGED <<command_history, appended, pc, frame, tool, tmpfiles, ncalls, last, resp, otherVars>>

----------------------------------------------------------------------------
(* puppeteer_mcp.py: BrowserManager and its tools *)

BrowserTypes == {"chromium", "firefox", "webkit", "edge"}
PageIds == {"default", "p2"}
Urls == {"https://example.org", "about:fail"}
Selectors == {"#go", "#empty", "#missing"}
JsScripts == {"1 + 1", "throw 1"}

\* self.playwright, self.browser, self.context: 0 is None, n the object made
\* by the n-th start_browser call
NoBrowser == [playwright |-> 0, browser |-> 0, context |-> 0, starts |-> 0]

PyBool(b) == IF b THEN "True" ELSE "False"

\* page.goto raises on a URL that does not load
GotoRaises(url) == url = "about:fail"
\* page.click, page.fill, page.text_content raise on a selector that matches nothing
SelectorRaises(selector) == selector = "#missing"

\* BrowserManager.start_browser (lines 22-36) under the tool start_browser
\* (lines 137-140)
StartBrowser(headless, browser_type) ==
    /\ server = "browser" /\ bm.starts < MaxStarts
    /\ LET n == bm.starts + 1
       IN  IF browser_type \in {"chromium", "firefox", "webkit"}
           THEN /\ bm' = [playwright |-> n, browser |-> n, context |-> n, starts |-> n]
                /\ resp' = Returned("start_browser",
                        Str("Browser " \o browser_type \o " started (headless="
                            \o PyBool(headless) \o ")"))
           ELSE /\ bm' = [bm EXCEPT !.playwright = n, !.starts = n]
                /\ resp' = Raised("start_browser", "InputError",
                        "ValueError: Unsupported browser type: " \o browser_type)
    /\ UNCHANGED <<server, bashVars, pages, npages, sshVars, tradingVars>>

\* navigate_to making a page on every call, whether or not the id has one
NavigateTo_AlwaysNew(url, page_id) ==
    /\ server = "browser" /\ bm.context # 0
    /\ pages' = (page_id :> [id |-> npages + 1, context |-> bm.context]) @@ pages
    /\ npages' = npages + 1
    /\ resp' = Returned("navigate_to", Str("Navigated to " \o url \o " - Title: Example"))
                 @@ [key |-> page_id, before |-> pages, page |-> Some(pages'[page_id])]
    /\ UNCHANGED <<server, bashVars, bm, sshVars, tradingVars>>

\* BrowserManager.navigate with new_page (lines 38-55): the registry and the
\* page count it leaves, whether it raised, and what it returned or raised;
\* failure and page are history fields: the error kind of the branch taken
\* and the page handle the call went on with (None when it had none).
navigate(pgs, n, context, url, page_id) ==
    IF page_id \notin DOMAIN pgs /\ context = 0
    THEN [pages |-> pgs, npages |-> n, raised |-> TRUE, failure |-> "ConnectionFailure",
          str |-> "Exception: Browser not started", page |-> None]
    ELSE LET created == page_id \notin DOMAIN pgs
             pgs1 == IF created THEN (page_id :> [id |-> n + 1, context |-> context]) @@ pgs
                     ELSE pgs
             n1 == IF created THEN n + 1 ELSE n
         IN  IF GotoRaises(url)
             THEN [pages |-> pgs1, npages |-> n1, raised |-> TRUE, failure |-> "ProviderError",
                   str |-> "Error: net::ERR_ABORTED at " \o url, page |-> Some(pgs1[page_id])]
             ELSE [pages |-> pgs1, npages |-> n1, raised |-> FALSE, failure |-> "none",
                   str |-> "Navigated to " \o url \o " - Title: Example",
                   page |-> Some(pgs1[page_id])]

\* the tool navigate_to (lines 142-146). key, before and page are history
\* fields of the response: the page id asked for, the registry as the call
\* found it, and the page handle the call went on with.
NavigateTo(url, page_id) ==
    /\ server = "browser"
    /\ LET nav == navigate(pages, npages, bm.context, url, page_id)
       IN  /\ pages' = nav.pages
           /\ npages' = nav.npages
           /\ resp' = (IF nav.raised THEN Raised("navigate_to", nav.failure, nav.str)
                       ELSE Returned("navigate_to", Str(nav.str)))
                        @@ [key |-> page_id, before |-> pages, page |-> nav.page]
    /\ UNCHANGED <<server, bashVars, bm, sshVars, tradingVars>>

\* page.text_content: the text of the element, empty for an empty element
TextContent(selector) == IF selector = "#go" THEN "Go" ELSE ""
\* page.evaluate raises on a script that throws
EvaluateRaises(script) == script # "1 + 1"
\* json.dumps(result, indent=2) of the value the script evaluates to
EvaluateJson(script) == "2"

\* What a page operation of BrowserManager gives back: the string it returns,
\* and two history fields: the error kind of the branch taken, and whether a
\* method of a page handle was called on the way.
PageResult(failure, str, acted) == [failure |-> failure, str |-> str, acted |-> acted]

\* lines 59-61, 71-73, 83-85, 95-97, 108-110, 120-122, 215-217
PageNotFound == PageResult("NotFound", "Page not found", FALSE)

\* BrowserManager.click_element, lines 57-67
click_element(pgs, selector, page_id) ==
    IF page_id \notin DOMAIN pgs THEN PageNotFound
    ELSE IF SelectorRaises(selector)
    THEN PageResult("ProviderError",
                    "Failed to click " \o selector \o ": Timeout 30000ms exceeded.", TRUE)
    ELSE PageResult("none", "Clicked element: " \o selector, TRUE)

\* BrowserManager.fill_input, lines 69-79
fill_input(pgs, selector, value, page_id) ==
    IF page_id \notin DOMAIN pgs THEN PageNotFound
    ELSE IF SelectorRaises(selector)
    THEN PageResult("ProviderError",
                    "Failed to fill " \o selector \o ": Timeout 30000ms exceeded.", TRUE)
    ELSE PageResult("none", "Filled " \o selector \o " with: " \o value, TRUE)

\* BrowserManager.extract_text, lines 81-91
extract_text(pgs, selector, page_id) ==
    IF page_id \notin DOMAIN pgs THEN PageNotFound
    ELSE IF SelectorRaises(selector)
    THEN PageResult("ProviderError", "Failed to extract text from " \o selector
                                     \o ": Timeout 30000ms exceeded.", TRUE)
    ELSE PageResult("none", IF TextContent(selector) # "" THEN TextContent(selector)
                            ELSE "No text found", TRUE)

\* BrowserManager.screenshot, lines 93-104; shot_ok is whether page.screenshot
\* delivers the image
screenshot(pgs, page_id, shot_ok) ==
    IF page_id \notin DOMAIN pgs THEN PageNotFound
    ELSE IF ~shot_ok
    THEN PageResult("ProviderError",
                    "Failed to take screenshot: Target page has been closed", TRUE)
    ELSE PageResult("none", "Screenshot taken (base64): iVBORw0KGgo...", TRUE)

\* BrowserManager.execute_javascript, lines 106-116
execute_javascript(pgs, raises, json, page_id) ==
    IF page_id \notin DOMAIN pgs THEN PageNotFound
    ELSE IF raises
    THEN PageResult("ProviderError", "JavaScript execution failed: Error: 1", TRUE)
    ELSE PageResult("none", json, TRUE)

\* BrowserManager.wait_for_selector, lines 118-128
wait_for_selector(pgs, selector, timeout, page_id) ==
    IF page_id \notin DOMAIN pgs THEN PageNotFound
    ELSE IF SelectorRaises(selector)
    THEN PageResult("ProviderError", "Element " \o selector \o " did not appear: Timeout "
                                     \o ToString(timeout) \o "ms exceeded.", TRUE)
    ELSE PageResult("none", "Element " \o selector \o " appeared", TRUE)

\* A tool that hands a page operation's string to the transport and touches
\* nothing else. key, acted and before are history fields of the response:
\* the page id asked for, whether a page handle was acted on, and the
\* registry as the call found it.
PageTool(name, page_id, r) ==
    /\ server = "browser"
    /\ resp' = Failed(name, r.failure, Str(r.str))
                 @@ [key |-> page_id, acted |-> r.acted, before |-> pages]
    /\ UNCHANGED <<server, bashVars, browserVars, sshVars, tradingVars>>

\* the tool click_element, lines 148-152
ClickElement(selector, page_id) ==
    PageTool("click_element", page_id, click_element(pages, selector, page_id))

\* the tool fill_form_field, lines 154-158
FillFormField(selector, value, page_id) ==
    PageTool("fill_form_field", page_id, fill_input(pages, selector, value, page_id))

\* the tool extract_text_content, lines 160-164
ExtractTextContent(selector, page_id) ==
    PageTool("extract_text_content", page_id, extract_text(pages, selector, page_id))

\* the tool take_screenshot, lines 166-170
TakeScreenshot(page_id, shot_ok) ==
    PageTool("take_screenshot", page_id, screenshot(pages, page_id, shot_ok))

\* the tool run_javascript, lines 172-176
RunJavascript(script, page_id) ==
    PageTool("run_javascript", page_id,
             execute_javascript(pages, EvaluateRaises(script), EvaluateJson(script), page_id))

\* the tool wait_for_element, lines 178-182
WaitForElement(selector, timeout, page_id) ==
    PageTool("wait_for_element", page_id, wait_for_selector(pages, selector, timeout, page_id))

\* scrape_table_data running its script without looking the page up
ScrapeTableData_Unchecked(table_selector, page_id, js_ok) ==
    PageTool("scrape_table_data", page_id,
             PageResult(IF js_ok THEN "none" ELSE "ProviderError",
                        IF js_ok THEN "[[\"a\"]]" ELSE "JavaScript execution failed: Error: 1",
                        TRUE))

\* the tool scrape_table_data, lines 212-235: its own look-up of the page,
\* then execute_javascript on the extraction script; js_ok is whether
\* page.evaluate accepts that script and the table is there
ScrapeTableData(table_selector, page_id, js_ok) ==
    PageTool("scrape_table_data", page_id,
             IF page_id \notin DOMAIN pages THEN PageNotFound
             ELSE execute_javascript(pages, ~js_ok, "[[\"a\"]]", page_id))

\* the error kind of the first step that failed, "none" when none did
FirstFailure(kinds) ==
    IF \A i \in 1..Len(kinds) : kinds[i] = "none" THEN "none"
    ELSE kinds[CHOOSE i \in 1..Len(kinds) :
                   kinds[i] # "none" /\ \A j \in 1..(i - 1) : kinds[j] = "none"]

\* the tool automate_login, lines 184-210: navigate, fill the user name, fill
\* the password, click submit, each result appended to the list that is
\* returned; an exception of navigate leaves the tool before the first
\* append. steps is a history field: for every step that ran, in order,
\* whether it succeeded.
AutomateLogin(login_url, username_selector, password_selector, submit_selector, username, password, page_id) ==
    /\ server = "browser"
    /\ LET nav == navigate(pages, npages, bm.context, login_url, page_id)
           user == fill_input(nav.pages, username_selector, username, page_id)
           pass == fill_input(nav.pages, password_selector, password, page_id)
           submit == click_element(nav.pages, submit_selector, page_id)
       IN  /\ pages' = nav.pages
           /\ npages' = nav.npages
           /\ resp' = IF nav.raised
                      THEN Raised("automate_login", nav.failure, nav.str) @@ [steps |-> <<FALSE>>]
                      ELSE Failed("automate_login",
                                  FirstFailure(<<user.failure, pass.failure, submit.failure>>),
                                  Json(<<"Navigation: " \o nav.str, "Username: " \o user.str,
                                         "Password: " \o pass.str, "Submit: " \o submit.str>>))
                             @@ [steps |-> <<TRUE, user.failure = "none", pass.failure = "none",
                                             submit.failure = "none">>]
    /\ UNCHANGED <<server, bashVars, bm, sshVars, tradingVars>>

----------------------------------------------------------------------------
(* gssh_mcp.py: SSHManager and its tools *)

Hosts == {"h1", "h2"}
Passwords == {"good", "bad"}
RemoteCommands == {"true", "false"}

\* paramiko's client.connect raises on credentials the host rejects
ConnectRaises(password) == password = "bad"

\* ssh_connect putting the new client into the registry before connecting it
SshConnect_StoreFirst(host, username, password) ==
    /\ server = "ssh" /\ nclients < MaxClients
    /\ nclients' = nclients + 1
    /\ connections' = (host :> [client |-> nclients + 1]) @@ connections
    /\ resp' = (IF ConnectRaises(password)
                THEN Failed("ssh_connect", "ConnectionFailure",
                        Str("Failed to connect to " \o host \o ": Authentication failed."))
                ELSE Returned("ssh_connect", Str("Connected to " \o host \o " as " \o username)))
                 @@ [key |-> host, before |-> connections, clients0 |-> nclients]
    /\ UNCHANGED <<server, bashVars, browserVars, gcloud_manager, tradingVars>>

\* SSHManager.connect (lines 25-39) under the tool ssh_connect (lines 121-124).
\* key, before and clients0 are history fields of the response: the host
\* asked for, the registry as the call found it, and the number of clients
\* constructed before the call.
SshConnect(host, username, password) ==
    /\ server = "ssh" /\ nclients < MaxClients
    /\ nclients' = nclients + 1
    /\ IF ConnectRaises(password)
       THEN /\ resp' = Failed("ssh_connect", "ConnectionFailure",
                    Str("Failed to connect to " \o host \o ": Authentication failed."))
                         @@ [key |-> host, before |-> connections, clients0 |-> nclients]
            /\ UNCHANGED connections
       ELSE /\ connections' = (host :> [client |-> nclients + 1]) @@ connections
            /\ resp' = Returned("ssh_connect",
                    Str("Connected to " \o host \o " as " \o username))
                         @@ [key |-> host, before |-> connections, clients0 |-> nclients]
    /\ UNCHANGED <<server, bashVars, browserVars, gcloud_manager, tradingVars>>

AppPaths == {"/srv/app", "/nowhere"}
ProjectIds == {"p1", "p2"}
ServiceNames == {"web", "gone"}

\* What the remote shell does with a command line: the directory /srv/app
\* exists, the project p1 can be deployed to, the service web has a version.
RemoteProgram(command) ==
    CASE command = "cd /srv/app" -> Exits(0, "", "")
      [] command = "cd /nowhere" -> Exits(1, "", "sh: cd: /nowhere: No such file or directory\n")
      [] command = "gcloud app deploy --project p1 --quiet" -> Exits(0, "Deployed\n", "")
      [] command = "gcloud app deploy --project p2 --quiet" -> Exits(1, "", "ERROR: no app\n")
      [] command = "gcloud app services set-traffic web --splits=DEPLOYED_VERSION=1" ->
            Exits(0, "", "")
      [] command = "gcloud app services set-traffic gone --splits=DEPLOYED_VERSION=1" ->
            Exits(1, "", "ERROR: not found\n")
      [] OTHER -> Program(command, {})

\* SSHManager.execute_command, lines 41-60
SshExecuteCommand(conns, host, command, channel_ok) ==
    IF host \notin DOMAIN conns
    THEN [error |-> "No connection to " \o host]
    ELSE IF channel_ok
         THEN [command   |-> command,
               exit_code |-> RemoteProgram(command).exit_code,
               stdout    |-> RemoteProgram(command).stdout,
               stderr    |-> RemoteProgram(command).stderr,
               success   |-> RemoteProgram(command).exit_code = 0]
         ELSE [error |-> "SSH session not active", success |-> FALSE]

\* the tool ssh_execute (lines 128-131); channel_ok is whether the
\* connection still carries a channel when exec_command is called. key,
\* acted and before are history fields, as in PageTool: acted is whether
\* exec_command was called on a client.
SshExecute(host, command, channel_ok) ==
    /\ server = "ssh"
    /\ resp' = Failed("ssh_execute",
                      IF host \notin DOMAIN connections THEN "NotFound"
                      ELSE IF ~channel_ok \/ RemoteProgram(command).exit_code # 0
                      THEN "ProviderError" ELSE "none",
                      Json(SshExecuteCommand(connections, host, command, channel_ok)))
                 @@ [key |-> host, acted |-> host \in DOMAIN connections,
                     before |-> connections]
    /\ UNCHANGED <<server, bashVars, browserVars, sshVars, tradingVars>>

\* result.get("success", False)
GetSuccess(result) == IF "success" \in DOMAIN result THEN result.success ELSE FALSE

\* deploy_to_gcloud, lines 168-172
DeployCommands(project_id, app_path, service_name) ==
    <<"cd " \o app_path,
      "gcloud app deploy --project " \o project_id \o " --quiet",
      "gcloud app services set-traffic " \o service_name \o " --splits=DEPLOYED_VERSION=1">>

\* deploy_to_gcloud, lines 174-179: the loop from the i-th command on
RECURSIVE DeployLoop(_, _, _, _, _, _)
DeployLoop(conns, host, commands, channels, i, results) ==
    IF i > Len(commands) THEN results
    ELSE LET result == SshExecuteCommand(conns, host, commands[i], channels[i])
         IN  IF ~GetSuccess(result) THEN Append(results, result)
             ELSE DeployLoop(conns, host, commands, channels, i + 1, Append(results, result))

\* the tool deploy_to_gcloud, lines 166-181; channels[i] is whether the
\* connection carries a channel when the i-th command is sent. steps is a
\* history field: for every command that ran, in order, whether it succeeded.
DeployToGcloud(host, project_id, app_path, service_name, channels) ==
    /\ server = "ssh"
    /\ LET results == DeployLoop(connections, host,
                                 DeployCommands(project_id, app_path, service_name),
                                 channels, 1, <<>>)
       IN  resp' = Failed("deploy_to_gcloud",
                          IF GetSuccess(results[Len(results)]) THEN "none"
                          ELSE IF host \notin DOMAIN connections THEN "NotFound"
                          ELSE "ProviderError",
                          Json(results))
                     @@ [steps |-> [i \in 1..Len(results) |-> GetSuccess(results[i])]]
    /\ UNCHANGED <<server, bashVars, browserVars, sshVars, tradingVars>>

----------------------------------------------------------------------------
(* gssh_mcp.py: GCloudManager and its tools *)

InstanceNames == {"vm1"}
Zones == {"us-central1-a"}

\* GCloudManager.list_instances, lines 69-84, on the manager's project
list_instances(project, zone, api_ok) ==
    IF api_ok
    THEN <<[name |-> project \o "-vm1", status |-> "RUNNING", machine_type |-> "e2-small",
            zone |-> zone, internal_ip |-> "10.0.0.2", external_ip |-> None]>>
    ELSE <<[error |-> "403 Permission denied on project " \o project]>>

\* GCloudManager.start_instance, lines 86-96
start_instance(project, instance_name, zone, api_ok) ==
    IF api_ok THEN "Started instance " \o instance_name
    ELSE "Failed to start " \o instance_name \o ": 404 not found in " \o project

\* GCloudManager.stop_instance, lines 98-108
stop_instance(project, instance_name, zone, api_ok) ==
    IF api_ok THEN "Stopped instance " \o instance_name
    ELSE "Failed to stop " \o instance_name \o ": 404 not found in " \o project

\* lines 137-139, 148-150, 158-160: the manager the tool goes on with
GetManager(manager, project_id) == IF manager = None THEN Some(project_id) ELSE manager

\* A gcloud tool: the manager is made on the first call (GCloudManager's
\* constructor, lines 66-68, raises when compute_v1.InstancesClient finds no
\* credentials: creds_ok), then asked; body is what the manager's method
\* gives back. project and used are history fields of the response: the
\* project_id passed to the call and the project the compute API was called
\* with (None when it was not called).
GcloudTool(name, project_id, creds_ok, api_ok, body) ==
    /\ server = "ssh"
    /\ IF gcloud_manager = None /\ ~creds_ok
       THEN /\ resp' = Raised(name, "ConnectionFailure",
                              "DefaultCredentialsError: credentials were not found")
                         @@ [project |-> project_id, used |-> None]
            /\ UNCHANGED gcloud_manager
       ELSE LET manager == GetManager(gcloud_manager, project_id)
            IN  /\ gcloud_manager' = manager
                /\ resp' = Failed(name, IF api_ok THEN "none" ELSE "ProviderError",
                                  body)
                             @@ [project |-> project_id, used |-> manager]
    /\ UNCHANGED <<server, bashVars, browserVars, connections, nclients, tradingVars>>

\* the tool gcloud_list_instances, lines 133-141
GcloudListInstances(project_id, zone, creds_ok, api_ok) ==
    GcloudTool("gcloud_list_instances", project_id, creds_ok, api_ok,
               Json(list_instances(GetManager(gcloud_manager, project_id)[1], zone, api_ok)))

\* the tool gcloud_start_instance, lines 144-152
GcloudStartInstance(project_id, instance_name, zone, creds_ok, api_ok) ==
    GcloudTool("gcloud_start_instance", project_id, creds_ok, api_ok,
               Str(start_instance(GetManager(gcloud_manager, project_id)[1],
                                  instance_name, zone, api_ok)))

\* the tool gcloud_stop_instance, lines 154-162
GcloudStopInstance(project_id, instance_name, zone, creds_ok, api_ok) ==
    GcloudTool("gcloud_stop_instance", project_id, creds_ok, api_ok,
               Str(stop_instance(GetManager(gcloud_manager, project_id)[1],
                                 instance_name, zone, api_ok)))

----------------------------------------------------------------------------
(* tradingAPI_mcp.py: IBManager and its tools *)

Ports == {7497, 1}
Symbols == {"AAPL"}
OrderActions == {"BUY", "SELL"}
Quantities == {1, 10}

\* ib.connect raises when no gateway listens on the port
IbConnectRaises(port) == port # 7497

\* IBManager.connect (lines 24-31) under the tool ib_connect (lines 136-139)
IbConnect(host, port, client_id) ==
    /\ server = "trading"
    /\ IF IbConnectRaises(port)
       THEN /\ resp' = Failed("ib_connect", "ConnectionFailure",
                    Str("Failed to connect to IB: [Errno 111] Connect call failed"))
            /\ UNCHANGED <<ib_connected, ib_session>>
       ELSE /\ ib_connected' = TRUE
            /\ ib_session' = TRUE
            /\ resp' = Returned("ib_connect",
                    Str("Connected to IB at " \o host \o ":" \o ToString(port)))
    /\ UNCHANGED <<server, bashVars, browserVars, sshVars, broker_calls>>

\* lines 35-36, 67-68
NotConnected == [error |-> "Not connected to IB"]

\* A tool that asks the broker for something: not_connected is what the
\* manager returns without a connection, answer what it returns with one.
\* calls0 is a history field of the response: the number of broker API calls
\* made before this one.
BrokerTool(name, not_connected, answer, api_ok) ==
    /\ server = "trading" /\ broker_calls < MaxBrokerCalls
    /\ IF ~ib_connected
       THEN /\ resp' = Failed(name, "ConnectionFailure", Json(not_connected))
                         @@ [calls0 |-> broker_calls]
            /\ UNCHANGED broker_calls
       ELSE /\ broker_calls' = broker_calls + 1
            /\ resp' = (IF api_ok THEN Returned(name, Json(answer))
                        ELSE Failed(name, "ProviderError", Json([error |-> "Not connected"])))
                         @@ [calls0 |-> broker_calls]
    /\ UNCHANGED <<server, bashVars, browserVars, sshVars, ib_connected, ib_session>>

\* place_order sending the order without looking at self.connected
IbPlaceOrder_Unguarded(symbol, action, quantity, order_type, api_ok) ==
    /\ server = "trading" /\ broker_calls < MaxBrokerCalls
    /\ broker_calls' = broker_calls + 1
    /\ resp' = Returned("ib_place_order", Json(
                    [orderId |-> broker_calls + 1, symbol |-> symbol, action |-> action,
                     quantity |-> quantity, orderType |-> order_type, status |-> "submitted"]))
                 @@ [calls0 |-> broker_calls]
    /\ UNCHANGED <<server, bashVars, browserVars, sshVars, ib_connected, ib_session>>

\* IBManager.place_order (lines 65-84) under the tool ib_place_order
\* (lines 154-157); api_ok is whether the broker API call succeeds
IbPlaceOrder(symbol, action, quantity, order_type, api_ok) ==
    BrokerTool("ib_place_order", NotConnected,
               [orderId |-> broker_calls + 1, symbol |-> symbol, action |-> action,
                quantity |-> quantity, orderType |-> order_type, status |-> "submitted"],
               api_ok)

\* IBManager.get_account_summary (lines 33-42) under the tool
\* ib_get_account_summary (lines 142-145)
IbGetAccountSummary(api_ok) ==
    BrokerTool("ib_get_account_summary", NotConnected, [NetLiquidation |-> "10000"], api_ok)

\* IBManager.get_positions (lines 44-63) under the tool ib_get_positions
\* (lines 148-151): a list in both cases
IbGetPositions(api_ok) ==
    /\ server = "trading" /\ broker_calls < MaxBrokerCalls
    /\ IF ~ib_connected
       THEN /\ resp' = Failed("ib_get_positions", "ConnectionFailure", Json(<<NotConnected>>))
                         @@ [calls0 |-> broker_calls]
            /\ UNCHANGED broker_calls
       ELSE /\ broker_calls' = broker_calls + 1
            /\ resp' = (IF api_ok
                        THEN Returned("ib_get_positions", Json(<<[contract |-> "Stock(AAPL)",
                                                                   position |-> 10]>>))
                        ELSE Failed("ib_get_positions", "ProviderError",
                                    Json(<<[error |-> "Not connected"]>>)))
                         @@ [calls0 |-> broker_calls]
    /\ UNCHANGED <<server, bashVars, browserVars, sshVars, ib_connected, ib_session>>

----------------------------------------------------------------------------
(* Specification *)

PrefillLens == {0, 1, MAX_HISTORY - 1, MAX_HISTORY}

\* The history left by n earlier completed commands.
Prefill(n) ==
    [i \in 1..n |-> ResultRecord(IF i % 2 = 1 THEN "true" ELSE "false", None,
                                 Program(IF i % 2 = 1 THEN "true" ELSE "false", {}))]

Init ==
    /\ server \in Servers
    /\ \E n \in PrefillLens :
          /\ (server # "bash" => n = 0)
          /\ command_history = Prefill(n)
          /\ appended = Prefill(n)
    /\ pc = [t \in Tasks |-> "idle"]
    /\ frame = [t \in Tasks |-> NoFrame]
    /\ tool = [t \in Tasks |-> NoTool]
    /\ procs = <<>>
    /\ tmpfiles = {}
    /\ ncalls = 0
    /\ last = NoLast
    /\ bm = NoBrowser
    /\ pages = <<>>
    /\ npages = 0
    /\ connections = <<>>
    /\ nclients = 0
    /\ gcloud_manager = None
    /\ ib_connected = FALSE
    /\ broker_calls = 0
    /\ ib_session = FALSE
    /\ resp = NoResp

\* a tool call dispatched to the idle task t
BashCall(t) ==
    \/ \E c \in ExecCommands, wd \in WorkingDirs, to \in Timeouts : ShellExecute(t, c, wd, to)
    \/ \E s \in Scripts, to \in ScriptTimeouts : ShellScript(t, s, None, to)
    \/ \E c \in ExplainCommands : ExplainCommand(t, c)

\* One call at a time: the transport hands the next request over once the
\* previous tool call has returned.
BashTool(t) == AllIdle /\ BashCall(t)

BashStep(t) ==
    \/ SpawnDone(t)
    \/ Completes(t)
    \/ DeadlineElapses(t)

LastNs == {0, 2, MAX_HISTORY}

BrowserTool ==
    \/ \E h \in BOOLEAN, b \in BrowserTypes : StartBrowser(h, b)
    \/ \E u \in Urls, p \in PageIds : NavigateTo(u, p)
    \/ \E s \in Selectors, p \in PageIds : ClickElement(s, p)
    \/ \E s \in Selectors, p \in PageIds : FillFormField(s, "alice", p)
    \/ \E s \in Selectors, p \in PageIds : ExtractTextContent(s, p)
    \/ \E p \in PageIds, ok \in BOOLEAN : TakeScreenshot(p, ok)
    \/ \E s \in JsScripts, p \in PageIds : RunJavascript(s, p)
    \/ \E s \in Selectors, p \in PageIds : WaitForElement(s, 5000, p)
    \/ \E s \in Selectors, p \in PageIds, ok \in BOOLEAN : ScrapeTableData(s, p, ok)
    \/ \E u \in Urls, us \in Selectors, ps \in Selectors, ss \in Selectors, p \in PageIds :
            AutomateLogin(u, us, ps, ss, "alice", "secret", p)

SshTool ==
    \/ \E h \in Hosts, pw \in Passwords : SshConnect(h, "root", pw)
    \/ \E h \in Hosts, c \in RemoteCommands, ok \in BOOLEAN : SshExecute(h, c, ok)
    \/ \E h \in Hosts, pr \in ProjectIds, ap \in AppPaths, sn \in ServiceNames,
          ch \in [1..3 -> BOOLEAN] : DeployToGcloud(h, pr, ap, sn, ch)
    \/ \E pr \in ProjectIds, z \in Zones, cr \in BOOLEAN, ok \in BOOLEAN :
            GcloudListInstances(pr, z, cr, ok)
    \/ \E pr \in ProjectIds, i \in InstanceNames, z \in Zones, cr \in BOOLEAN, ok \in BOOLEAN :
            GcloudStartInstance(pr, i, z, cr, ok)
    \/ \E pr \in ProjectIds, i \in InstanceNames, z \in Zones, cr \in BOOLEAN, ok \in BOOLEAN :
            GcloudStopInstance(pr, i, z, cr, ok)

TradingTool ==
    \/ \E p \in Ports : IbConnect("127.0.0.1", p, 1)
    \/ \E s \in Symbols, a \in OrderActions, q \in Quantities, ok \in BOOLEAN :
            IbPlaceOrder(s, a, q, "MKT", ok)
    \/ \E ok \in BOOLEAN : IbGetAccountSummary(ok)
    \/ \E ok \in BOOLEAN : IbGetPositions(ok)

Next ==
    \/ \E t \in SeqTasks : BashTool(t)
    \/ \E t \in SeqTasks : BashStep(t)
    \/ AllIdle /\ \E n \in LastNs : ShellHistory(n)
    \/ \E p \in 1..MaxCalls : ProcessDies(p)
    \/ BrowserTool
    \/ SshTool
    \/ TradingTool

Spec == Init /\ [][Next]_vars

\* The event loop resumes a coroutine whose awaited event has happened, a
\* running program that terminates does terminate, and a deadline that is set
\* elapses; the operating system ends a process that was sent SIGKILL.
Fairness ==
    /\ \A t \in SeqTasks : WF_vars(SpawnDone(t))
    /\ \A t \in SeqTasks : WF_vars(Completes(t))
    /\ \A t \in SeqTasks : WF_vars(DeadlineElapses(t))
    /\ \A p \in 1..MaxCalls : WF_vars(ProcessDies(p))

FairSpec == Init /\ [][Next]_vars /\ Fairness

\* Overlapping dispatch on the shell server: a request is handed to an idle
\* task while the coroutine of another task is suspended at an await, so the
\* segments of two execute_command calls interleave.
ConcInit == Init /\ server = "bash"

ConcNext ==
    \/ \E t \in Tasks : BashCall(t)
    \/ \E t \in Tasks : BashStep(t)
    \/ \E n \in LastNs : ShellHistory(n)
    \/ \E p \in 1..MaxCalls : ProcessDies(p)

ConcSpec == ConcInit /\ [][ConcNext]_vars

----------------------------------------------------------------------------
(* Properties *)

\* the k most recent elements of s, in order
LastK(s, k) == SubSeq(s, Len(s) - k + 1, Len(s))

TimeoutMessages == {"Command timed out after " \o ToString(n) \o " seconds" : n \in {30, 60}}

\* C1: when the deadline elapses before the subprocess completes,
\* execute_command sends it a kill, returns without waiting for it to exit
\* (at the return the process is signalled, not yet reaped), and the record
\* has success = false, a timeout error and no exit_code; a record with an
\* exit_code is returned only for a process that completed before the
\* deadline.
C1_TimeoutRecord ==
    /\ last.outcome = "timeout" =>
          /\ last.status = "killed"
          /\ procs[last.pid].status \in {"killed", "exited"}
          /\ last.ret.success = FALSE
          /\ last.ret.error \in TimeoutMessages
          /\ "exit_code" \notin DOMAIN last.ret
    /\ (last.outcome # "none" /\ "exit_code" \in DOMAIN last.ret) =>
          /\ last.outcome = "completed"
          /\ last.status = "exited"
          /\ ~procs[last.pid].timed_out

C1_Witness ==
    /\ last.outcome = "timeout"
    /\ procs[last.pid].status = "killed"
    /\ last.ret.command = "sleep inf"

\* C2: once execute_command has returned a timeout record, the subprocess of
\* that call is not running in any later state.
C2_TimedOutProcessNotRunning ==
    \A p \in DOMAIN procs : procs[p].timed_out => procs[p].status = "exited"

\* C3: every invocation of execute_command eventually returns a record,
\* whatever the command and the timeout.
C3_EveryInvocationReturns ==
    \A n \in 1..MaxCalls : (ncalls = n) ~> (last.call = n)

\* C4: every execute_command dispatch appends exactly one record to
\* command_history, whatever its outcome.
C4_EveryDispatchAppendsOne ==
    last.outcome # "none" => last.app1 = last.app0 + 1

\* C5: under one-at-a-time dispatch the length of command_history never
\* exceeds MAX_HISTORY.
C5_HistoryBounded == Len(command_history) <= MAX_HISTORY

C5_Witness ==
    /\ last.outcome = "completed"
    /\ last.len0 = MAX_HISTORY
    /\ Len(command_history) = MAX_HISTORY
    /\ AllIdle

\* C6: when no call is in flight, command_history is exactly the last
\* min(k, MAX_HISTORY) of the k records appended so far, in append order.
C6_HistoryIsLastAppended ==
    AllIdle => command_history = LastK(appended, Min(Len(appended), MAX_HISTORY))

\* C7: no execute_command call leaves command_history shorter than it found
\* it: an eviction comes with the insertion of the call's own record.
C7_NoCallShrinksHistory ==
    last.outcome # "none" => last.len1 >= last.len0

\* C8: shell_history(last_n), last_n >= 0, returns and lists exactly the
\* min(last_n, length) most recent records in stored order.
C8_HistoryListsLastN ==
    (resp.tool = "shell_history" /\ AllIdle) =>
        /\ resp.outcome = "returned"
        /\ resp.recent = LastK(command_history, Min(resp.last_n, Len(command_history)))

\* C9: no tool invocation ends by propagating an exception.
C9_NoToolRaises == resp.outcome # "raised"

\* C10: every failure a tool returns is a structured record with
\* success = false and an error message (an error or stderr field).
C10_FailuresAreStructured ==
    (resp.outcome = "returned" /\ resp.failure # "none") =>
        /\ resp.body.kind = "json"
        /\ "success" \in DOMAIN resp.body.value
        /\ resp.body.value.success = FALSE
        /\ \/ "error" \in DOMAIN resp.body.value
           \/ "stderr" \in DOMAIN resp.body.value

\* the operations that look a session up and never create one
NonCreatingTools ==
    {"ssh_execute", "click_element", "fill_form_field", "extract_text_content",
     "take_screenshot", "run_javascript", "wait_for_element", "scrape_table_data"}

\* the session registry of the server the behaviour follows
Registry == IF server = "ssh" THEN connections ELSE pages

\* C11: an operation that cannot create a session (ssh_execute, click_element,
\* fill_form_field, extract_text_content, take_screenshot, run_javascript,
\* wait_for_element, scrape_table_data), called with a key the registry has
\* no handle for, returns the not-found failure, calls no method of any
\* handle, and leaves the registry exactly as it found it, the key still
\* absent.
C11_AbsentKeyIsNotFound ==
    (resp.tool \in NonCreatingTools /\ resp.key \notin DOMAIN resp.before) =>
        /\ resp.outcome = "returned"
        /\ resp.failure = "NotFound"
        /\ resp.body = IF resp.tool = "ssh_execute"
                       THEN Json([error |-> "No connection to " \o resp.key])
                       ELSE Str("Page not found")
        /\ ~resp.acted
        /\ Registry = resp.before
        /\ resp.key \notin DOMAIN Registry

C11_Witness ==
    /\ resp.tool = "scrape_table_data"
    /\ resp.key = "p2"
    /\ resp.failure = "NotFound"
    /\ DOMAIN pages = {"default"}

\* C12: with the browser started, navigate_to on a page_id that has no page
\* puts a new page under that id, and a later navigate_to on the same id
\* goes on with that same page and leaves the registry as it is; over any
\* sequence of calls exactly one page is ever created per page_id.
C12_OnePagePerId ==
    /\ npages = Cardinality(DOMAIN pages)
    /\ \A p, q \in DOMAIN pages : pages[p].id = pages[q].id => p = q
    /\ (resp.tool = "navigate_to" /\ resp.key \notin DOMAIN resp.before /\ bm.context # 0) =>
          /\ DOMAIN pages = DOMAIN resp.before \cup {resp.key}
          /\ resp.page = Some(pages[resp.key])
          /\ \A p \in DOMAIN resp.before : pages[p] = resp.before[p]
    /\ (resp.tool = "navigate_to" /\ resp.key \in DOMAIN resp.before) =>
          /\ pages = resp.before
          /\ resp.page = Some(resp.before[resp.key])

C12_Witness ==
    /\ resp.tool = "navigate_to"
    /\ resp.outcome = "returned"
    /\ resp.key \in DOMAIN resp.before
    /\ npages = 2

\* C13: ssh_connect is an idempotent get-or-create per host: when the
\* registry already holds a handle for the host, a further ssh_connect
\* constructs no new SSH client and leaves the registry entry as it is.
C13_ConnectIsGetOrCreate ==
    (resp.tool = "ssh_connect" /\ resp.key \in DOMAIN resp.before) =>
        /\ nclients = resp.clients0
        /\ connections = resp.before

\* C14: a creation attempt that fails stores nothing: a failed ssh_connect
\* leaves connections exactly as it was (an absent host stays absent, an
\* earlier handle stays), and a navigate_to issued while the browser is not
\* started leaves pages unchanged.
C14_FailedCreationStoresNothing ==
    /\ (resp.tool = "ssh_connect" /\ resp.failure = "ConnectionFailure") =>
          connections = resp.before
    /\ (resp.tool = "navigate_to" /\ bm.context = 0) =>
          /\ resp.failure = "ConnectionFailure"
          /\ pages = resp.before
          /\ npages = 0

C14_Witness ==
    /\ resp.tool = "ssh_connect"
    /\ resp.failure = "ConnectionFailure"
    /\ resp.key = "h1"
    /\ resp.before = ("h1" :> [client |-> 1])
    /\ connections = resp.before

\* C15: every composite workflow (automate_login with its four steps,
\* deploy_to_gcloud with its three remote commands) stops at the first step
\* that fails: no step runs after a failed one, and the workflow returns the
\* results of the steps that ran, the failed one included.
C15_WorkflowStopsAtFirstFailure ==
    resp.tool \in {"automate_login", "deploy_to_gcloud"} =>
        /\ \A i \in 1..Len(resp.steps) : ~resp.steps[i] => i = Len(resp.steps)
        /\ resp.outcome = "returned"
        /\ Len(resp.body.value) = Len(resp.steps)

\* C16: the bound of the history survives overlapping dispatch without a
\* lock: when two execute_command calls interleave at their awaits, the
\* length of command_history never exceeds MAX_HISTORY.
C16_HistoryBoundedWhenOverlapping == Len(command_history) <= MAX_HISTORY

\* the tools that go to the broker API
BrokerTools == {"ib_place_order", "ib_get_account_summary", "ib_get_positions"}

\* C17: no order reaches the broker before a connection: ib_place_order (and
\* ib_get_account_summary, ib_get_positions) calls the broker API only if an
\* earlier ib_connect succeeded; otherwise it returns the error "Not
\* connected to IB" and makes no broker call.
C17_NoBrokerCallBeforeConnect ==
    /\ broker_calls > 0 => ib_session
    /\ (resp.tool \in BrokerTools /\ ~ib_session) =>
          /\ resp.body = Json(IF resp.tool = "ib_get_positions" THEN <<NotConnected>>
                              ELSE NotConnected)
          /\ broker_calls = resp.calls0
    /\ (resp.tool \in BrokerTools /\ broker_calls > resp.calls0) => ib_session

C17_Witness ==
    /\ resp.tool = "ib_place_order"
    /\ resp.failure = "none"
    /\ broker_calls = 2
    /\ ib_session

\* C18: after any sequence of start_browser and navigate_to calls every page
\* handle in pages belongs to the browser context that is active now; no
\* page id maps to a page of a context that was replaced.
C18_PagesBelongToActiveContext ==
    \A p \in DOMAIN pages : pages[p].context = bm.context

\* the tools that go to the compute API
GcloudTools == {"gcloud_list_instances", "gcloud_start_instance", "gcloud_stop_instance"}

\* C19: every gcloud_list_instances, gcloud_start_instance and
\* gcloud_stop_instance call acts on the project_id passed to that call,
\* whatever project_ids the calls before it were given.
C19_ActsOnPassedProject ==
    (resp.tool \in GcloudTools /\ resp.used # None) => resp.used = Some(resp.project)

====
